---- MODULE Spec2Model ----
(***************************************************************************)
(* Model of gaphor/UML/listmixins.py: the predicate Matcher, the           *)
(* querymixin and recursemixin list extensions and the recurseproxy.       *)
(*                                                                         *)
(* Python values are records [t, n, s, items]: t is the Python type, n the *)
(* number of an int or bool or the identity of an object, s the text of a  *)
(* str, items the members of a list, tuple or slice.  List-subclass        *)
(* instances and proxies live in a heap and are referred to by identity.   *)
(***************************************************************************)
EXTENDS Integers, Sequences, FiniteSets, TLC

\* ------------------------------------------------------------------ bounds
MaxLen == 2

\* ------------------------------------------------------------ Python values
Val(t, n, s, items) == [t |-> t, n |-> n, s |-> s, items |-> items]
None == Val("NoneType", 0, "", <<>>)
Absent == Val("absent", 0, "", <<>>)
PyBool(b) == Val("bool", IF b THEN 1 ELSE 0, "", <<>>)
PyInt(i) == Val("int", i, "", <<>>)
PyStr(s) == Val("str", 0, s, <<>>)
Obj(id) == Val("object", id, "", <<>>)
Lst(items) == Val("list", 0, "", items)
Tuple(items) == Val("tuple", 0, "", items)
Slice(start, stop, step) == Val("slice", 0, "", <<start, stop, step>>)
SeqRef(id) == Val("seq", id, "", <<>>)
ProxyRef(id) == Val("proxy", id, "", <<>>)

\* The outcome of a call: a returned value, or the name of the exception raised.
Ok(v) == [exc |-> "", val |-> v]
Raise(e) == [exc |-> e, val |-> None]

IsNumber(v) == v.t \in {"int", "bool"}

\* Python truth value of v in heap h (bool(v)).
Truthy(h, v) ==
    CASE v.t = "bool" -> v.n = 1
      [] v.t = "int" -> v.n # 0
      [] v.t = "str" -> v.s # ""
      [] v.t = "NoneType" -> FALSE
      [] v.t \in {"list", "tuple"} -> Len(v.items) > 0
      [] v.t = "seq" -> Len(h.seqs[v.n].items) > 0
      [] OTHER -> TRUE

\* Python ==: numbers by value, lists by content, everything else by
\* type and identity.
PyEq(h, a, b) ==
    LET content(x) == IF x.t = "seq" THEN h.seqs[x.n].items ELSE x.items
    IN  CASE IsNumber(a) /\ IsNumber(b) -> a.n = b.n
          [] a.t \in {"list", "seq"} /\ b.t \in {"list", "seq"} -> content(a) = content(b)
          [] OTHER -> a = b

\* ------------------------------------------------------ the domain objects
\* The attribute-bearing elements held by the sequences (class A of the
\* doctests): one lacks a name, one holds a str where the others hold an int,
\* their tags are an empty list, a list holding a list, and a text.
AttrNames == {"name", "val", "children", "b", "tags"}
ObjAttrs ==
    LET none == [a \in AttrNames |-> Absent]
    IN  <<[none EXCEPT !.name = PyStr("one"), !.val = PyInt(1),
                       !.children = SeqRef(2), !.b = Obj(2), !.tags = Lst(<<>>)],
          [none EXCEPT !.name = PyStr("two"), !.val = PyStr("x"),
                       !.children = SeqRef(3),
                       !.tags = Lst(<<Lst(<<PyInt(7)>>), PyStr("t")>>)],
          [none EXCEPT !.val = PyInt(0), !.b = Obj(3), !.tags = PyStr("uv")]>>
Objs == 1..Len(ObjAttrs)

\* getattr(v, name): only the domain objects carry the attributes named here.
getattr(v, name) ==
    IF v.t = "object" /\ name \in AttrNames /\ ObjAttrs[v.n][name] # Absent
    THEN Ok(ObjAttrs[v.n][name])
    ELSE Raise("AttributeError")

\* ------------------------------------------------------------------ Matcher
\* Expression trees of the predicate strings.
It == [op |-> "it"]
Attr(obj, attr) == [op |-> "attr", obj |-> obj, attr |-> attr]
Name(id) == [op |-> "name", id |-> id]
Const(v) == [op |-> "const", v |-> v]
Eq(l, r) == [op |-> "eq", l |-> l, r |-> r]
Gt(l, r) == [op |-> "gt", l |-> l, r |-> r]
NoCode == [op |-> "invalid"]

\* The predicate strings the model queries with.
Exprs ==
    {"it.name==\"one\"", "it.b.name==\"two\"", "it.name", "foo==1",
     "it.val>0", "it.name=="}

\* compile(expr, "<matcher>", "eval") on those strings.
compile(expr) ==
    CASE expr = "it.name==\"one\"" -> Eq(Attr(It, "name"), Const(PyStr("one")))
      [] expr = "it.b.name==\"two\"" -> Eq(Attr(Attr(It, "b"), "name"), Const(PyStr("two")))
      [] expr = "it.name" -> Attr(It, "name")
      [] expr = "foo==1" -> Eq(Name("foo"), Const(PyInt(1)))
      [] expr = "it.val>0" -> Gt(Attr(It, "val"), Const(PyInt(0)))
      [] OTHER -> NoCode

\* eval(code, {}, {"it": element}): left to right, the first exception ends
\* the evaluation.  > is defined between numbers (the strings above never
\* compare two texts) and raises TypeError between other types.
RECURSIVE PyEval(_, _, _)
PyEval(h, code, element) ==
    CASE code.op = "it" -> Ok(element)
      [] code.op = "const" -> Ok(code.v)
      [] code.op = "name" -> Raise("NameError")
      [] code.op = "attr" ->
            LET o == PyEval(h, code.obj, element)
            IN  IF o.exc # "" THEN o ELSE getattr(o.val, code.attr)
      [] code.op \in {"eq", "gt"} ->
            LET l == PyEval(h, code.l, element)
                r == PyEval(h, code.r, element)
            IN  IF l.exc # "" THEN l
                ELSE IF r.exc # "" THEN r
                ELSE IF code.op = "eq" THEN Ok(PyBool(PyEq(h, l.val, r.val)))
                ELSE IF IsNumber(l.val) /\ IsNumber(r.val) THEN Ok(PyBool(l.val.n > r.val.n))
                ELSE Raise("TypeError")

\* Matcher.__init__: compile raises TypeError on a key that is no text and
\* SyntaxError on text that is no expression.
Matcher(expr) ==
    IF expr.t # "str" THEN Raise("TypeError")
    ELSE IF compile(expr.s).op = "invalid" THEN Raise("SyntaxError")
    ELSE Ok(expr)

\* The exceptions Matcher.__call__ catches (first, a variant that catches
\* TypeError as well).
MatcherCaught_TypeErrorToo(exc) == exc \in {"AttributeError", "NameError", "TypeError"}
MatcherCaught(exc) == exc \in {"AttributeError", "NameError"}

\* Matcher.__call__(element), self.expr being the code of the string expr.
Matcher_call(h, expr, element) ==
    LET r == PyEval(h, compile(expr.s), element)
    IN  IF MatcherCaught(r.exc) THEN Ok(PyBool(FALSE)) ELSE r

\* --------------------------------------------------------------------- list
\* The positions (from 1) a slice selects in a list of n items, as
\* slice.indices computes them; the step of the model's slices is never 0.
SliceIndices(n, key) ==
    LET step == IF key.items[3] = None THEN 1 ELSE key.items[3].n
        lower == IF step > 0 THEN 0 ELSE 0 - 1
        upper == IF step > 0 THEN n ELSE n - 1
        max(a, b) == IF a > b THEN a ELSE b
        min(a, b) == IF a < b THEN a ELSE b
        clamp(v, dflt) ==
            IF v = None THEN dflt
            ELSE IF v.n < 0 THEN max(v.n + n, lower)
            ELSE min(v.n, upper)
        start == clamp(key.items[1], IF step < 0 THEN upper ELSE lower)
        stop == clamp(key.items[2], IF step < 0 THEN lower ELSE upper)
        count ==
            IF step > 0
            THEN IF start < stop THEN ((stop - start - 1) \div step) + 1 ELSE 0
            ELSE IF stop < start THEN ((start - stop - 1) \div (0 - step)) + 1 ELSE 0
    IN  [k \in 1..count |-> start + (k - 1) * step + 1]

\* list.__getitem__(key): an element for an integer (counted from the end
\* when negative), a new plain list for a slice, TypeError for any other key.
list_getitem(items, key) ==
    CASE IsNumber(key) ->
            LET i == IF key.n < 0 THEN key.n + Len(items) ELSE key.n
            IN  IF i < 0 \/ i >= Len(items) THEN Raise("IndexError")
                ELSE Ok(items[i + 1])
      [] key.t = "slice" ->
            LET pos == SliceIndices(Len(items), key)
            IN  Ok(Lst([k \in 1..Len(pos) |-> items[pos[k]]]))
      [] OTHER -> Raise("TypeError")

\* --------------------------------------------------------------- the heap
\* h.seqs: the list-subclass instances, each with its class and items;
\* h.proxies: the recurseproxy instances, each with its __sequence.
\* The method resolution order of each sequence class.
MRO ==
    [QR |-> <<"querymixin", "recursemixin", "list">>,
     RQ |-> <<"recursemixin", "querymixin", "list">>,
     Q |-> <<"querymixin", "list">>,
     R |-> <<"recursemixin", "list">>,
     list |-> <<"list">>]
Classes == {"QR", "RQ", "Q", "R"}

\* cls(items): a new instance of the sequence class cls.
NewSeq(h, cls, items) ==
    [h |-> [h EXCEPT !.seqs = Append(@, [cls |-> cls, items |-> items])],
     out |-> Ok(SeqRef(Len(h.seqs) + 1))]

\* recurseproxy.__init__(sequence): the proxy keeps the sequence it is given
\* (first, a variant that keeps a copy of it).
recurseproxy_init_Copy(h, sequence) ==
    LET c == NewSeq(h, h.seqs[sequence].cls, h.seqs[sequence].items)
    IN  [h |-> [c.h EXCEPT !.proxies = Append(@, [sequence |-> c.out.val.n])],
         out |-> Ok(ProxyRef(Len(h.proxies) + 1))]
recurseproxy_init(h, sequence) ==
    [h |-> [h EXCEPT !.proxies = Append(@, [sequence |-> sequence])],
     out |-> Ok(ProxyRef(Len(h.proxies) + 1))]

\* ------------------------------------------------------------ recursemixin
\* recursemixin._recursemixin_trigger
recursemixin_trigger == Slice(None, None, None)

\* key == self._recursemixin_trigger (first, a variant true of every slice)
IsTrigger_AnySlice(key) == key.t = "slice"
IsTrigger(key) == key = recursemixin_trigger

\* -------------------------------------------------------------- querymixin
\* except TypeError: the exceptions of standard indexing that querymixin
\* answers with the matcher (first, a variant that catches IndexError too).
QueryCaught_IndexErrorToo(exc) == exc \in {"TypeError", "IndexError"}
QueryCaught(exc) == exc = "TypeError"

\* key, remainder = key[0], key[1:] for a tuple; remainder = None otherwise.
SplitKey(key) ==
    IF key.t = "tuple"
    THEN [key |-> key.items[1], remainder |-> Tuple(Tail(key.items))]
    ELSE [key |-> key, remainder |-> None]

\* "if remainder:" the truth value of the remainder (first, a variant that
\* asks for a true first element as well).
HasRemainder_FirstTruthy(h, remainder) ==
    Truthy(h, remainder) /\ Truthy(h, remainder.items[1])
HasRemainder(h, remainder) == Truthy(h, remainder)

\* list(filter(matcher, self)): the items whose matcher value is true, in
\* order; the first exception a call raises ends the filter.
RECURSIVE filter(_, _, _)
filter(h, expr, items) ==
    IF items = <<>> THEN Ok(Lst(<<>>))
    ELSE LET m == Matcher_call(h, expr, Head(items))
             rest == filter(h, expr, Tail(items))
         IN  IF m.exc # "" THEN m
             ELSE IF rest.exc # "" THEN rest
             ELSE IF Truthy(h, m.val) THEN Ok(Lst(<<Head(items)>> \o rest.val.items))
             ELSE rest

\* type(self)(matched): the class of the sequence the matches are put in
\* (first, a variant that makes a plain list).
MatchedClass_PlainList(cls) == "list"
MatchedClass(cls) == cls

\* self.__getitem__(key), resolved from position i of the class's MRO on:
\* querymixin.__getitem__, recursemixin.__getitem__ and list.__getitem__.
RECURSIVE getitem_from(_, _, _, _)
getitem_from(h, self, i, key) ==
    LET c == MRO[h.seqs[self].cls][i]
        super == getitem_from(h, self, i + 1, key)
    IN  CASE c = "list" -> [h |-> h, out |-> list_getitem(h.seqs[self].items, key)]
          [] c = "recursemixin" ->
                IF IsTrigger(key) THEN recurseproxy_init(h, self) ELSE super
          [] c = "querymixin" ->
                IF ~QueryCaught(super.out.exc) THEN super
                ELSE IF key.t = "tuple" /\ key.items = <<>>
                THEN [h |-> h, out |-> Raise("IndexError")]
                ELSE
                LET k == SplitKey(key)
                    matcher == Matcher(k.key)
                    matched == filter(h, k.key, h.seqs[self].items)
                    new == NewSeq(h, MatchedClass(h.seqs[self].cls), matched.val.items)
                IN  IF matcher.exc # "" THEN [h |-> h, out |-> matcher]
                    ELSE IF matched.exc # "" THEN [h |-> h, out |-> matched]
                    ELSE IF ~HasRemainder(h, k.remainder) THEN new
                    ELSE IF Len(k.remainder.items) # 1
                    THEN [h |-> new.h, out |-> Raise("TypeError")]
                    ELSE getitem_from(new.h, new.out.val.n, 1, k.remainder.items[1])

\* sequence[key]
getitem(h, self, key) == getitem_from(h, self, 1, key)

\* ------------------------------------------------------------ recurseproxy
\* issafeiterable(obj): iter(obj) succeeds and obj is no str (first, a
\* variant that takes nothing for iterable).
issafeiterable_Never(obj) == FALSE
issafeiterable(obj) ==
    obj.t \in {"str", "list", "tuple", "seq", "proxy"} /\ obj.t # "str"

\* The values iterating obj yields.
IterItems(h, obj) ==
    CASE obj.t = "seq" -> h.seqs[obj.n].items
      [] obj.t = "proxy" -> h.seqs[h.proxies[obj.n].sequence].items
      [] OTHER -> obj.items

\* mygetattr() of recurseproxy.__getattr__(key): the generator's values.
RECURSIVE mygetattr(_, _, _)
mygetattr(h, items, key) ==
    IF items = <<>> THEN <<>>
    ELSE LET obj == getattr(Head(items), key)
             rest == mygetattr(h, Tail(items), key)
         IN  IF obj.exc = "AttributeError" THEN rest
             ELSE IF issafeiterable(obj.val) THEN IterItems(h, obj.val) \o rest
             ELSE <<obj.val>> \o rest

\* type(self.__sequence)(...): the class of a projection's backing sequence
\* (first, a variant that makes a plain list).
ProjectedClass_PlainList(cls) == "list"
ProjectedClass(cls) == cls

\* recurseproxy.__getattr__(key)
recurseproxy_getattr(h, proxy, key) ==
    LET sequence == h.seqs[h.proxies[proxy].sequence]
        new == NewSeq(h, ProjectedClass(sequence.cls), mygetattr(h, sequence.items, key))
    IN  recurseproxy_init(new.h, new.out.val.n)

\* recurseproxy.__getitem__(key)
recurseproxy_getitem(h, proxy, key) == getitem(h, h.proxies[proxy].sequence, key)

\* list(proxy): recurseproxy.__iter__ consumed into a list.
recurseproxy_iter(h, proxy) == Ok(Lst(h.seqs[h.proxies[proxy].sequence].items))

\* ------------------------------------------------------------- the program
VARIABLES
    seqs,      \* the list-subclass instances alive: [cls, items], by identity
    proxies,   \* the recurseproxy instances alive: [sequence], by identity
    origin,    \* history: for each proxy, the sequence whose [:] made it (0: none)
               \*          and whether that sequence was changed since
    last       \* the last call made: its receiver, arguments and outcome
               \*   op, key, out: the operation, its argument, its outcome
               \*   self: the receiver (a sequence, a proxy, an element)
               \*   seq, recv: the sequence indexed or projected (for a proxy the
               \*              one behind it) and its class and items at the call
               \*   ref: the sequence, as numbered at the call, that the returned
               \*        sequence is or that the returned proxy wraps (0: a new one)
               \*   from: history, origin of the receiving proxy

vars == <<seqs, proxies, origin, last>>

H == [seqs |-> seqs, proxies |-> proxies]

NoSeq == [cls |-> "", items |-> <<>>]
Asked(seq) == [seq |-> seq, changed |-> FALSE]
Call(op, self, seq, key, out, ref, from) ==
    [op |-> op, self |-> self, seq |-> seq,
     recv |-> IF seq = 0 THEN NoSeq ELSE seqs[seq],
     key |-> key, out |-> out, ref |-> ref, from |-> from]

\* The structure the client builds, as in the doctests: an empty root
\* sequence, and the children lists of objects 1 and 2, all of class cls.
Built(cls) ==
    <<[cls |-> cls, items |-> <<>>],
      [cls |-> cls, items |-> <<Obj(2), Obj(3)>>],
      [cls |-> cls, items |-> <<Obj(3)>>]>>
Root == 1
NBuilt == Len(Built("list"))
Elements == {Obj(o) : o \in Objs}

\* The keys the client indexes with.
Ints == {PyInt(i) : i \in {0 - 1, 0, 1}}
Slices == {recursemixin_trigger, Slice(PyInt(0), None, None)}
Preds == {PyStr(e) : e \in Exprs}
Pairs ==
    {Tuple(<<PyStr("it.name"), k>>) :
        k \in {PyInt(0), recursemixin_trigger, Slice(PyInt(0), None, None),
               PyStr("it.name==\"one\"")}}
Triples == {Tuple(<<PyStr("it.name"), PyStr("it.name==\"one\""), PyInt(0)>>)}
Others == {Tuple(<<PyStr("it.name")>>)}
Keys == Ints \cup Slices \cup (Preds \ {PyStr("foo==1")}) \cup Pairs \cup Triples \cup Others

Init ==
    /\ \E cls \in Classes : seqs = Built(cls)
    /\ proxies = <<>>
    /\ origin = <<>>
    /\ last = Call("new", 0, 0, None, Ok(None), 0, Asked(0))

\* What is alive after a call that left heap h and outcome out.  A query is
\* one chained expression: the client keeps the structure it built and the
\* sequence or proxy the last call returned (with the sequence behind that
\* proxy); every other instance a call created is unreferenced and gone.
\* The kept ones are numbered anew: the returned sequence NBuilt + 1, the
\* returned proxy 1.
Kept(h, out) ==
    LET v == out.val
        renum(id) == IF id > NBuilt THEN NBuilt + 1 ELSE id
        with(id) == SubSeq(h.seqs, 1, NBuilt) \o (IF id > NBuilt THEN <<h.seqs[id]>> ELSE <<>>)
    IN  CASE out.exc = "" /\ v.t = "seq" ->
                [seqs |-> with(v.n), proxies |-> <<>>, out |-> Ok(SeqRef(renum(v.n)))]
          [] out.exc = "" /\ v.t = "proxy" ->
                [seqs |-> with(h.proxies[v.n].sequence),
                 proxies |-> <<[sequence |-> renum(h.proxies[v.n].sequence)]>>,
                 out |-> Ok(ProxyRef(1))]
          [] OTHER -> [seqs |-> with(0), proxies |-> <<>>, out |-> out]

\* The sequence of the heap before the call that out refers to: the returned
\* sequence, or the one behind the returned proxy; 0 when the call made it.
Refers(h, out) ==
    LET v == out.val
        id == IF v.t = "seq" THEN v.n ELSE h.proxies[v.n].sequence
    IN  IF out.exc = "" /\ v.t \in {"seq", "proxy"} /\ id <= Len(seqs) THEN id ELSE 0

\* The state after the call op(key) on receiver self with sequence seq, which
\* left r = [h, out]; asked is the sequence a new proxy was asked of with [:].
Return(op, self, seq, key, r, asked) ==
    LET k == Kept(r.h, r.out)
    IN  /\ seqs' = k.seqs
        /\ proxies' = k.proxies
        /\ origin' = [p \in 1..Len(k.proxies) |-> Asked(asked)]
        /\ last' = Call(op, self, seq, key, k.out, Refers(r.h, r.out),
                        IF op \in {"proxy_getitem", "proxy_getattr", "proxy_iter"}
                        THEN origin[self] ELSE Asked(0))

\* A change of the root sequence: a proxy the client made with [:] of a
\* built sequence stays with it, with whatever sequence is behind that proxy;
\* any other result of a query does not outlive the change.
Changed(op, element, items) ==
    LET stays == Len(proxies) > 0 /\ origin[1].seq \in 1..NBuilt
    IN  /\ seqs' = [(IF stays THEN seqs ELSE SubSeq(seqs, 1, NBuilt))
                        EXCEPT ![Root].items = items]
        /\ proxies' = IF stays THEN proxies ELSE <<>>
        /\ origin' = IF stays THEN [p \in 1..Len(origin) |->
                                        [origin[p] EXCEPT !.changed = (@ \/ origin[p].seq = Root)]]
                     ELSE <<>>
        /\ last' = Call(op, Root, Root, element, Ok(None), 0, Asked(0))

\* list.append(element) on the root sequence
ListAppend(element) ==
    /\ Len(seqs[Root].items) < MaxLen
    /\ Changed("append", element, Append(seqs[Root].items, element))

\* list.remove(element) on the root sequence: the first occurrence goes.
ListRemove(element) ==
    LET items == seqs[Root].items
        at == {i \in 1..Len(items) : items[i] = element}
        first == CHOOSE i \in at : \A j \in at : i <= j
    IN  /\ at # {}
        /\ Changed("remove", element,
                   SubSeq(items, 1, first - 1) \o SubSeq(items, first + 1, Len(items)))

\* sequence[key], on the root sequence or on the sequence a call returned
SeqGetItem(self, key) ==
    Return("getitem", self, self, key, getitem(H, self, key),
           IF IsTrigger(key) THEN self ELSE 0)

\* proxy[key]
ProxyGetItem(proxy, key) ==
    Return("proxy_getitem", proxy, proxies[proxy].sequence, key,
           recurseproxy_getitem(H, proxy, key), 0)

\* proxy.key
ProxyGetAttr(proxy, key) ==
    Return("proxy_getattr", proxy, proxies[proxy].sequence, PyStr(key),
           recurseproxy_getattr(H, proxy, key), 0)

\* list(proxy)
ProxyIter(proxy) ==
    Return("proxy_iter", proxy, proxies[proxy].sequence, None,
           [h |-> H, out |-> recurseproxy_iter(H, proxy)], 0)

\* Matcher(expr)(element) on an element of the root sequence; self holds the
\* element, key the expression.
MatcherCall(expr, element) ==
    /\ Matcher(expr).exc = ""
    /\ Return("matcher", element.n, 0, expr,
              [h |-> H, out |-> Matcher_call(H, expr, element)], 0)

Next ==
    \/ \E e \in Elements : ListAppend(e)
    \/ \E e \in Elements : ListRemove(e)
    \/ \E s \in {Root} \cup (NBuilt + 1..Len(seqs)), k \in Keys : SeqGetItem(s, k)
    \/ \E p \in 1..Len(proxies), k \in Keys : ProxyGetItem(p, k)
    \/ \E p \in 1..Len(proxies), a \in {"name", "children", "tags"} : ProxyGetAttr(p, a)
    \/ \E p \in 1..Len(proxies) : ProxyIter(p)
    \/ \E e \in Preds, i \in 1..Len(seqs[Root].items) : MatcherCall(e, seqs[Root].items[i])

Spec == Init /\ [][Next]_vars

\* ------------------------------------------------------------------ claims
Queryable(cls) == "querymixin" \in {MRO[cls][i] : i \in 1..Len(MRO[cls])}
Recursive(cls) == "recursemixin" \in {MRO[cls][i] : i \in 1..Len(MRO[cls])}
IsPredicate(k) == k.t = "str" /\ compile(k.s).op # "invalid"
WholeRange == Slice(None, None, None)

\* The evaluation of predicate p on element e, and how it can end.
ValueOn(p, e) == PyEval(H, compile(p.s), e)
Soft(exc) == exc \in {"AttributeError", "NameError"}
Fails(p, e) == ValueOn(p, e).exc # "" /\ ~Soft(ValueOn(p, e).exc)

\* Matcher(p) is true of e; Matcher(p) returns on every one of items.
MatcherTrue(p, e) ==
    LET m == Matcher_call(H, p, e) IN m.exc = "" /\ Truthy(H, m.val)
MatcherReturns(p, items) ==
    \A i \in 1..Len(items) : Matcher_call(H, p, items[i]).exc = ""
Selected(p, items) ==
    LET keep(e) == MatcherTrue(p, e) IN SelectSeq(items, keep)

\* Standard indexing of items with the integer k.
InRange(items, k) == 0 - Len(items) <= k.n /\ k.n < Len(items)
At(items, k) == items[(IF k.n < 0 THEN k.n + Len(items) ELSE k.n) + 1]

\* What a caller can see of an outcome: the exception, the value, or the
\* class and items of the returned sequence or of the one behind the proxy.
Obs(h, out) ==
    LET v == out.val
        see(kind, val, seq) ==
            [exc |-> out.exc, kind |-> kind, val |-> val, cls |-> seq.cls, items |-> seq.items]
    IN  CASE out.exc # "" -> see("", None, NoSeq)
          [] v.t = "seq" -> see("seq", None, h.seqs[v.n])
          [] v.t = "proxy" -> see("proxy", None, h.seqs[h.proxies[v.n].sequence])
          [] OTHER -> see("value", v, NoSeq)

\* The sequence the last call indexed, as it was at the call, in a heap of
\* its own, and the two-step indexing recv[p][rest] there.
Before == [seqs |-> SubSeq(seqs, 1, NBuilt) \o <<last.recv>>, proxies |-> <<>>]
TwoStep(p, rest) ==
    LET a == getitem(Before, NBuilt + 1, p)
    IN  IF a.out.exc # "" THEN a ELSE getitem(a.h, a.out.val.n, rest)

\* C1: on a queryable sequence, seq[p] for a predicate p that Matcher
\* evaluates on every element returns without error a new sequence of the
\* class of seq holding exactly the elements Matcher(p) is true of, in order
\* (also when none or one matches: never an element, never an error).
Thm_C1 ==
    (last.op = "getitem" /\ Queryable(last.recv.cls) /\ IsPredicate(last.key)
        /\ MatcherReturns(last.key, last.recv.items))
    => /\ last.out.exc = ""
       /\ last.out.val.t = "seq"
       /\ last.ref = 0
       /\ seqs[last.out.val.n].cls = last.recv.cls
       /\ seqs[last.out.val.n].items = Selected(last.key, last.recv.items)

Wit_C1 ==
    /\ last.op = "getitem" /\ last.key = PyStr("it.name==\"one\"")
    /\ last.recv.items = <<Obj(2), Obj(1)>>
    /\ last.out = Ok(SeqRef(NBuilt + 1))
    /\ seqs[NBuilt + 1].items = <<Obj(1)>>

\* C2 (as claimed): for a tuple key (p1, k2, ..., kn), n >= 2, on a queryable
\* sequence, seq[p1, k2, ..., kn] gives what seq[p1][k2, ..., kn] gives.
Cex_C2 ==
    (last.op = "getitem" /\ Queryable(last.recv.cls) /\ last.key.t = "tuple"
        /\ Len(last.key.items) >= 2 /\ IsPredicate(last.key.items[1]))
    => LET rest == Tail(last.key.items)
           two == TwoStep(last.key.items[1], IF Len(rest) = 1 THEN rest[1] ELSE Tuple(rest))
       IN  Obs(H, last.out) = Obs(two.h, two.out)

\* C3: on a queryable sequence, for a predicate p and an integer or slice i
\* that seq[p][i] accepts, seq[p, i] gives what seq[p][i] gives, i = 0 included.
Thm_C3 ==
    (last.op = "getitem" /\ Queryable(last.recv.cls) /\ last.key.t = "tuple"
        /\ Len(last.key.items) = 2 /\ IsPredicate(last.key.items[1])
        /\ last.key.items[2].t \in {"int", "slice"}
        /\ TwoStep(last.key.items[1], last.key.items[2]).out.exc = "")
    => LET two == TwoStep(last.key.items[1], last.key.items[2])
       IN  Obs(H, last.out) = Obs(two.h, two.out)

Wit_C3 ==
    /\ last.op = "getitem" /\ last.key = Tuple(<<PyStr("it.name"), PyInt(0)>>)
    /\ last.recv.items = <<Obj(3), Obj(2)>>
    /\ last.out = Ok(Obj(2))

\* C4: Matcher(p)(e) returns False when the evaluation of p on e raises
\* AttributeError or NameError and otherwise ends as the evaluation ends, its
\* exception passed on; seq[p] raises the first such exception of its
\* elements, and raises nothing when there is none.
Thm_C4 ==
    /\ last.op = "matcher" =>
          LET r == ValueOn(last.key, Obj(last.self))
          IN  /\ Soft(r.exc) => last.out = Ok(PyBool(FALSE))
              /\ ~Soft(r.exc) => last.out = r
    /\ (last.op = "getitem" /\ Queryable(last.recv.cls) /\ IsPredicate(last.key)) =>
          LET items == last.recv.items
              bad == {i \in 1..Len(items) : Fails(last.key, items[i])}
          IN  /\ bad = {} => last.out.exc = ""
              /\ \A i \in bad :
                    (\A j \in bad : i <= j) => last.out.exc = ValueOn(last.key, items[i]).exc

Wit_C4 ==
    /\ last.op = "getitem" /\ last.key = PyStr("it.val>0")
    /\ last.recv.items = <<Obj(3), Obj(2)>>
    /\ last.out.exc = "TypeError"

\* C5 (as claimed): whenever Matcher(p)(e) returns, it returns a bool.
Cex_C5 ==
    (last.op = "matcher" /\ last.out.exc = "") => last.out.val.t = "bool"

\* C6: on a recursive sequence, seq[:] raises nothing and returns a proxy of
\* seq itself, also when seq is empty; an integer, or a slice with a bound or
\* a step, is indexed as the list indexes it and gives no proxy.
Thm_C6 ==
    (last.op = "getitem" /\ Recursive(last.recv.cls)) =>
       /\ last.key = WholeRange =>
             /\ last.out.exc = "" /\ last.out.val.t = "proxy"
             /\ last.ref = last.seq
             /\ seqs[proxies[last.out.val.n].sequence] = last.recv
       /\ (last.key.t \in {"int", "slice"} /\ last.key # WholeRange) =>
             /\ last.out = list_getitem(last.recv.items, last.key)
             /\ last.out.val.t # "proxy"

Wit_C6 ==
    /\ last.op = "getitem" /\ last.key = WholeRange
    /\ last.recv = [cls |-> "R", items |-> <<>>]
    /\ last.out = Ok(ProxyRef(1))

\* What element e contributes to the projection of attribute a.
Contribution(e, a) ==
    LET v == IF e.t = "object" /\ a \in AttrNames THEN ObjAttrs[e.n][a] ELSE Absent
    IN  CASE v = Absent -> <<>>
          [] v.t \in {"list", "tuple"} -> v.items
          [] v.t = "seq" -> seqs[v.n].items
          [] OTHER -> <<v>>
RECURSIVE Contributions(_, _)
Contributions(items, a) ==
    IF items = <<>> THEN <<>>
    ELSE Contribution(Head(items), a) \o Contributions(Tail(items), a)
Scalar(e, a) == Len(Contribution(e, a)) = 0 \/ Contribution(e, a) = <<ObjAttrs[e.n][a]>>

\* C7: proxy.attr returns a new proxy of a new sequence of the class of the
\* sequence behind proxy, holding the contributions of its elements in order:
\* nothing for an element without attr, the members of a list value, the
\* value itself otherwise (a text too); no more values than elements when
\* every value is a scalar.
Thm_C7 ==
    last.op = "proxy_getattr" =>
       /\ last.out.exc = "" /\ last.out.val.t = "proxy"
       /\ last.ref = 0
       /\ LET backing == seqs[proxies[last.out.val.n].sequence]
          IN  /\ backing.cls = last.recv.cls
              /\ backing.items = Contributions(last.recv.items, last.key.s)
              /\ (\A i \in 1..Len(last.recv.items) :
                      last.recv.items[i].t = "object" /\ Scalar(last.recv.items[i], last.key.s))
                 => Len(backing.items) <= Len(last.recv.items)

Wit_C7 ==
    /\ last.op = "proxy_getattr" /\ last.key = PyStr("tags")
    /\ last.recv.items = <<Obj(2), Obj(3)>>
    /\ seqs[proxies[last.out.val.n].sequence].items =
          <<Lst(<<PyInt(7)>>), PyStr("t"), PyStr("uv")>>

\* C8: a proxy made by seq[:] iterates, at any time, over the elements seq
\* has at that time, and proxy[k] is seq[k] for an integer k, whatever was
\* appended to or removed from seq since.
Thm_C8 ==
    /\ \A p \in 1..Len(proxies) : origin[p].seq # 0 =>
          /\ recurseproxy_iter(H, p) = Ok(Lst(seqs[origin[p].seq].items))
          /\ \A k \in Ints :
                recurseproxy_getitem(H, p, k).out = getitem(H, origin[p].seq, k).out
    /\ (last.op = "proxy_iter" /\ last.from.seq = Root) =>
          last.out = Ok(Lst(seqs[Root].items))
    /\ (last.op = "proxy_getitem" /\ last.from.seq = Root /\ last.key.t = "int") =>
          last.out = getitem(H, Root, last.key).out

\* The proxy was made of an empty root and iterated after appends to it.
Wit_C8 ==
    /\ last.op = "proxy_iter" /\ last.from = [seq |-> Root, changed |-> TRUE]
    /\ last.out = Ok(Lst(<<Obj(2), Obj(3)>>))

\* C9: on a queryable sequence an integer key in range returns the element
\* the list holds there, an integer key out of range raises IndexError, and
\* seq[p, i] raises IndexError when i is out of range of the elements
\* matching p.
Thm_C9 ==
    (last.op = "getitem" /\ Queryable(last.recv.cls)) =>
       /\ (last.key.t = "int" /\ InRange(last.recv.items, last.key)) =>
             last.out = Ok(At(last.recv.items, last.key))
       /\ (last.key.t = "int" /\ ~InRange(last.recv.items, last.key)) =>
             last.out.exc = "IndexError"
       /\ (last.key.t = "tuple" /\ Len(last.key.items) = 2
             /\ IsPredicate(last.key.items[1])
             /\ MatcherReturns(last.key.items[1], last.recv.items)
             /\ last.key.items[2].t = "int"
             /\ ~InRange(Selected(last.key.items[1], last.recv.items), last.key.items[2])) =>
             last.out.exc = "IndexError"

Wit_C9 ==
    /\ last.op = "getitem" /\ last.key = Tuple(<<PyStr("it.name"), PyInt(0)>>)
    /\ last.recv.items = <<Obj(3)>>
    /\ last.out.exc = "IndexError"

\* The heap of the last call with the two mixin orders exchanged.
Exchanged ==
    LET other(cls) == IF cls = "QR" THEN "RQ" ELSE IF cls = "RQ" THEN "QR" ELSE cls
    IN  [Before EXCEPT !.seqs =
            [i \in 1..Len(Before.seqs) |-> [Before.seqs[i] EXCEPT !.cls = other(@)]]]
Hidden(obs) == [obs EXCEPT !.cls = ""]

\* C10: with both mixins on one class, in either order, every sequence alive,
\* those behind projected proxies included, has that class, and indexing it
\* or a proxy of it goes by the same rules: [:] gives a proxy of the
\* sequence, a predicate gives the matching elements in a sequence of the
\* class, (predicate, key) gives what the two steps give, an integer gives
\* what the list gives; and the other order gives the same for the same key.
Thm_C10 ==
    seqs[Root].cls \in {"QR", "RQ"} =>
       /\ \A s \in 1..Len(seqs) : seqs[s].cls = seqs[Root].cls
       /\ \A p \in 1..Len(proxies) : seqs[proxies[p].sequence].cls = seqs[Root].cls
       /\ last.op \in {"getitem", "proxy_getitem"} =>
             /\ LET b == getitem(Exchanged, NBuilt + 1, last.key)
                IN  Hidden(Obs(H, last.out)) = Hidden(Obs(b.h, b.out))
             /\ last.key = WholeRange =>
                   /\ last.out.exc = "" /\ last.out.val.t = "proxy"
                   /\ last.ref = last.seq
             /\ (IsPredicate(last.key) /\ MatcherReturns(last.key, last.recv.items)) =>
                   /\ last.out.exc = "" /\ last.out.val.t = "seq"
                   /\ seqs[last.out.val.n] =
                         [cls |-> last.recv.cls, items |-> Selected(last.key, last.recv.items)]
             /\ (last.key.t = "tuple" /\ Len(last.key.items) = 2
                   /\ IsPredicate(last.key.items[1])) =>
                   LET two == TwoStep(last.key.items[1], last.key.items[2])
                   IN  Obs(H, last.out) = Obs(two.h, two.out)
             /\ last.key.t = "int" =>
                   last.out = IF InRange(last.recv.items, last.key)
                              THEN Ok(At(last.recv.items, last.key))
                              ELSE Raise("IndexError")

Wit_C10 ==
    /\ last.op = "proxy_getitem" /\ last.from.seq = 0 /\ last.seq = NBuilt + 1
    /\ last.recv = [cls |-> "RQ", items |-> <<Obj(2), Obj(3)>>]
    /\ last.key = PyStr("it.name")
    /\ last.out = Ok(SeqRef(NBuilt + 1))
    /\ seqs[NBuilt + 1] = [cls |-> "RQ", items |-> <<Obj(2)>>]

====
